---- MODULE Spec2Model ----
(***************************************************************************)
(* Tunnel lifecycle manager of pont: service.Manager (the registry and the *)
(* lifecycle coordinator), the goroutine each Manager.Start launches, and  *)
(* the three adapters behind the TunnelService interface:                  *)
(*   "cloudflare"  CloudflareService        (src/unnamed/part_002)         *)
(*   "agent"       NgrokService, ngrok v2   (src/internal/service/ngrok.go)*)
(*   "proxy"       NgrokService, ngrok v1   (src/unnamed/part_001)         *)
(* The two NgrokService sources share one type name, so a build holds one  *)
(* of them: ngrokBuild says which.                                         *)
(***************************************************************************)
EXTENDS Integers, Sequences, FiniteSets, TLC

\* Number of adapter instances (successful Manager.Start calls) in a run.
MaxInst == 2

VARIABLES
    cfg,        \* persistence store: id -> tunnel definition, NoDef when absent
    ngrokBuild, \* "agent" or "proxy": the NgrokService the build holds
    tunnels,    \* Manager.tunnels: id -> index into inst, 0 when no entry
    inst,       \* every *TunnelState allocated so far, with its service
    mu,         \* Manager.mu: "free", "stop" (Lock held by Stop), "read" (RLock)
    stopper,    \* the Manager.Stop call that holds mu
    stopAll,    \* the StopAll call in progress
    reader,     \* the GetStatus call in progress
    ret,        \* what the step just taken returned to its API caller
    started,    \* ids for which some Manager.Start returned nil
    stdio,      \* os.Stdout / os.Stderr and what each runTunnel did to them
    mcp,        \* the MCP startTunnel call in progress
    log         \* package logger: the CircularBuffer and the subscribers

vars == <<cfg, ngrokBuild, tunnels, inst, mu, stopper, stopAll, reader, ret, started,
          stdio, mcp, log>>

-----------------------------------------------------------------------------
\* Identifiers the API layer may pass. "c1" and "n1" are UUIDs with a stored
\* definition, "u1" is a UUID with none, "unknown-id" is not a UUID.
Ids == {"c1", "n1", "u1", "unknown-id"}

ValidUUID(id) == id # "unknown-id"

NoDef == [Type |-> "none", Target |-> "", MCPEnabled |-> FALSE]

\* Targets a stored definition may hold: validateTunnel only asks for a
\* non-empty target, so one that url.Parse rejects can be stored.
GoodTargets == {"http://localhost:8080"}
AnyTargets == {"http://localhost:8080", "://bad"}

\* url.Parse(target): TRUE when it returns no error.
UrlParseOK(target) == target # "://bad"

\* Error values, by the text the code gives them.
ErrAlreadyRunning == "tunnel already running"
ErrInvalidID == "invalid tunnel id"
ErrNotFound == "tunnel not found"
ErrUnsupported == "unsupported tunnel type"
ErrInvalidTarget == "invalid target URL"
ErrAgent == "Failed to create agent"
ErrConnect == "Failed to start tunnel"
ErrSessionLimit == "Free ngrok accounts can only run one tunnel at a time. Please stop other tunnels first."
ErrTimeout == "Ngrok connection timeout"
ErrCli == "cli error"
ErrPanic == "tunnel panic"
ErrClose == "failed to close ngrok tunnel"

\* res.err as NgrokService.Start receives it from resultCh: the code
\* ngrok.Error.Code() gives ("" when errors.As finds no ngrok.Error) and the
\* text %v prints.  NoResult stands for no error received.
NoResult == [code |-> "", msg |-> ""]
SessionLimitError == [code |-> "ERR_NGROK_108", msg |-> "account limited to 1 session"]
OtherProviderError == [code |-> "ERR_NGROK_105", msg |-> "invalid authtoken"]

\* Bounds of the logger: the capacity of the CircularBuffer (500 in
\* logger.Init), of a subscriber's channel (100 in Subscribe), and how many
\* entries, channels and concurrent Writes are followed.
BufSize == 2
MaxBufSize == 3
MaxAdds == 7
ChanCap == 1
MaxChans == 3
MaxWrites == 3
Writers == {1, 2}
SubIds == {"s1", "s2"}

\* NewCircularBuffer(size)
NewCircularBuffer(size) == [entries |-> <<>>, size |-> size, index |-> 0]

NoSnapshot == [taken |-> FALSE, at |-> 0, val |-> <<>>, shared |-> FALSE]
IdleWriter == [pc |-> "idle", entry |-> 0, todo |-> {}]
IdleCleaner == [pc |-> "idle", todo |-> {}]

\* Package logger after Init(logLevel, logFile): an empty buffer, no
\* subscribers; debug is whether the level lets Sugar.Debugf through.  added
\* is the history of the entries given to Add, snap the slice the last GetAll
\* returned, panicked the runtime panic a channel operation raised.
NewLogger(size, debug) ==
    [cb |-> NewCircularBuffer(size), added |-> <<>>, snap |-> NoSnapshot,
     subs |-> [id \in SubIds |-> 0], chans |-> <<>>,
     lock |-> FALSE, rlocks |-> 0,
     writer |-> [w \in Writers |-> IdleWriter], cleaner |-> IdleCleaner,
     debug |-> debug, panicked |-> ""]

\* The public URL the provider issues to the session of instance i.
IssuedURL(i) == "https://s" \o ToString(i)

NoSnap == [Status |-> "", PublicURL |-> "", Error |-> ""]
NoRet == [op |-> "none", id |-> "", err |-> "", snap |-> NoSnap]
Ret(op, id, err) == [op |-> op, id |-> id, err |-> err, snap |-> NoSnap]

IdleStopper == [pc |-> "idle", id |-> "", i |-> 0, by |-> "", err |-> ""]
IdleReader == [pc |-> "idle", id |-> "", i |-> 0, Status |-> "", PublicURL |-> ""]
IdleStopAll == [active |-> FALSE, todo |-> {}]
IdleMcp == [pc |-> "idle", id |-> "", err |-> ""]

Insts == 1..Len(inst)

\* The process-wide os.Stdout / os.Stderr (runTunnel assigns both together):
\* out is 0 for the stream the process started with and i for the write end
\* of the pipe runTunnel made for the session of instance i.  For each session
\* old is its saved oldStdout, sink the stream its cloudflared output goes to
\* and closed whether its pipe has been closed.
OriginalStdio ==
    [out |-> 0,
     sess |-> [i \in 1..MaxInst |->
                  [pc |-> "init", old |-> 0, sink |-> 0, closed |-> FALSE]]]

\* The context an adapter's session runs under is done when the per-tunnel
\* context is cancelled or the adapter's own cancel function was called.
SvcCtxDone(i) == inst[i].ctxDone \/ inst[i].sCancel = "cancelled"

\* cs.cancel() / ns.cancel() guarded by "!= nil".
CallCancel(c) == IF c = "nil" THEN "nil" ELSE "cancelled"

-----------------------------------------------------------------------------
\* GetTunnel without the uuid.Parse of the id: every miss is "not found".
GetTunnelNoParse(id) ==
    IF cfg[id] = NoDef THEN [err |-> ErrNotFound, def |-> NoDef]
    ELSE [err |-> "", def |-> cfg[id]]

\* config.Manager.GetTunnel
GetTunnel(id) ==
    IF ~ValidUUID(id) THEN [err |-> ErrInvalidID, def |-> NoDef]
    ELSE IF cfg[id] = NoDef THEN [err |-> ErrNotFound, def |-> NoDef]
    ELSE [err |-> "", def |-> cfg[id]]

\* Which adapter Manager.Start constructs for a definition.
ServiceKind(def) ==
    IF def.Type = "cloudflare" THEN "cloudflare"
    ELSE IF def.Type = "ngrok" THEN ngrokBuild
    ELSE "none"

\* NewInstance of a Manager.Start that has called service.Start itself and
\* returns with the adapter in its connect.
NewInstanceConnecting(id, def) ==
    [id |-> id, kind |-> ServiceKind(def), target |-> def.Target,
     Status |-> "starting", PublicURL |-> "", Error |-> "", ctxDone |-> FALSE,
     sStatus |-> "stopped", sURL |-> "", sErr |-> "", sCancel |-> "live",
     handle |-> "nil", bg |-> "connecting", startErr |-> "", run |-> "none",
     panicked |-> FALSE, res |-> NoResult]

\* The fresh TunnelState of Manager.Start with NewCloudflareService /
\* NewNgrokService behind it; bg is the goroutine Start launches, run the
\* adapter's session goroutine.
NewInstance(id, def) ==
    [id |-> id, kind |-> ServiceKind(def), target |-> def.Target,
     Status |-> "starting", PublicURL |-> "", Error |-> "", ctxDone |-> FALSE,
     sStatus |-> "stopped", sURL |-> "", sErr |-> "", sCancel |-> "nil",
     handle |-> "nil", bg |-> "start", startErr |-> "", run |-> "none",
     panicked |-> FALSE, res |-> NoResult]

\* The "already running" test of Manager.Start.
AlreadyRunning(id) == tunnels[id] # 0 /\ inst[tunnels[id]].Status = "running"

\* StartError without the "already running" test.
StartErrorNoRunningTest(id) ==
    IF GetTunnel(id).err # "" THEN GetTunnel(id).err
    ELSE IF ServiceKind(GetTunnel(id).def) = "none" THEN ErrUnsupported
    ELSE ""

\* The error Manager.Start returns, "" for nil.
StartError(id) ==
    IF AlreadyRunning(id) THEN ErrAlreadyRunning
    ELSE IF GetTunnel(id).err # "" THEN GetTunnel(id).err
    ELSE IF ServiceKind(GetTunnel(id).def) = "none" THEN ErrUnsupported
    ELSE ""

\* Manager.Start: the whole call runs under m.mu.Lock().
ManagerStart(id) ==
    /\ mu = "free"
    /\ IF StartError(id) # ""
       THEN /\ ret' = Ret("Start", id, StartError(id))
            /\ UNCHANGED <<tunnels, inst, started>>
       ELSE /\ Len(inst) < MaxInst
            /\ inst' = Append(inst, NewInstance(id, GetTunnel(id).def))
            /\ tunnels' = [tunnels EXCEPT ![id] = Len(inst) + 1]
            /\ started' = started \cup {id}
            /\ ret' = Ret("Start", id, "")
    /\ UNCHANGED <<cfg, ngrokBuild, log, stdio, mu, stopper, stopAll, reader>>

\* Manager.Start as Server.startTunnel of the HTTP API calls it.
Start(id) ==
    /\ ManagerStart(id)
    /\ UNCHANGED mcp

-----------------------------------------------------------------------------
\* CloudflareService.Start, called by the goroutine of Manager.Start.
CloudflareStart(i) ==
    IF inst[i].sStatus \in {"running", "starting"}
    THEN [inst EXCEPT ![i].startErr = ErrAlreadyRunning, ![i].bg = "report_err"]
    ELSE IF ~UrlParseOK(inst[i].target)
    THEN [inst EXCEPT ![i].startErr = ErrInvalidTarget, ![i].bg = "report_err"]
    ELSE [inst EXCEPT ![i].sCancel = "live", ![i].sStatus = "starting",
                      ![i].sErr = "", ![i].run = "app", ![i].bg = "report_ok"]

\* NgrokService.Start of ngrok.go up to the launch of agent.Forward;
\* agentOK is whether ngrok.NewAgent succeeded.
AgentStart(i, agentOK) ==
    IF ~agentOK
    THEN [inst EXCEPT ![i].sCancel = "live", ![i].sErr = ErrAgent,
                      ![i].sStatus = "error", ![i].startErr = ErrAgent,
                      ![i].bg = "report_err"]
    ELSE [inst EXCEPT ![i].sCancel = "live", ![i].bg = "connecting"]

\* NgrokService.Start of part_001 up to the launch of ngrok.Listen.
ProxyStart(i) ==
    IF ~UrlParseOK(inst[i].target)
    THEN [inst EXCEPT ![i].sCancel = "live", ![i].startErr = ErrInvalidTarget,
                      ![i].bg = "report_err"]
    ELSE [inst EXCEPT ![i].sCancel = "live", ![i].bg = "connecting"]

\* The goroutine of Manager.Start calls service.Start(ctx).
BgServiceStart(i) ==
    /\ inst[i].bg = "start"
    /\ \/ inst[i].kind = "cloudflare" /\ inst' = CloudflareStart(i)
       \/ inst[i].kind = "agent" /\ \E agentOK \in BOOLEAN : inst' = AgentStart(i, agentOK)
       \/ inst[i].kind = "proxy" /\ inst' = ProxyStart(i)
    /\ ret' = NoRet
    /\ UNCHANGED <<cfg, ngrokBuild, log, mcp, stdio, tunnels, mu, stopper, stopAll, reader, started>>

\* What the provider's connect call (agent.Forward, ngrok.Listen) may do.
ConnectOutcomes == {"ok", "err", "limit", "timeout"}

\* The error the provider's connect call returns for an outcome.
ProviderError(outcome) ==
    IF outcome = "limit" THEN SessionLimitError
    ELSE IF outcome = "err" THEN OtherProviderError
    ELSE NoResult

\* NgrokService.Start of ngrok.go picks the path by strings.HasPrefix on the
\* target: "tcp://" gives startTCP, "tls://" startTLS, anything else startHTTP.
Protocol(target) ==
    CASE target = "tcp://localhost:22" -> "tcp"
      [] target = "tls://localhost:443" -> "tls"
      [] OTHER -> "http"

\* The text each path puts before the provider's error.
ErrConnectPrefix(proto) ==
    CASE proto = "tcp" -> "Failed to start TCP tunnel"
      [] proto = "tls" -> "Failed to start TLS tunnel"
      [] OTHER -> ErrConnect

\* startErrMsg with the ERR_NGROK_108 test left out of startTCP and startTLS.
startErrMsgHTTPOnly(proto, err) ==
    IF err.code = "ERR_NGROK_108" /\ proto = "http" THEN ErrSessionLimit
    ELSE ErrConnectPrefix(proto) \o ": " \o err.msg

\* errMsg of startHTTP, startTCP and startTLS for a connect error err.
startErrMsg(proto, err) ==
    IF err.code = "ERR_NGROK_108" THEN ErrSessionLimit
    ELSE ErrConnectPrefix(proto) \o ": " \o err.msg

\* The message NgrokService records for a failed connect: ngrok.go rewrites
\* the ERR_NGROK_108 error, part_001 records every error alike.
ConnectErrMsg(kind, target, outcome) ==
    IF outcome = "timeout" THEN ErrTimeout
    ELSE IF kind = "agent" THEN startErrMsg(Protocol(target), ProviderError(outcome))
    ELSE ErrConnect \o ": " \o ProviderError(outcome).msg

\* NgrokService.Start: the select on resultCh and time.After, up to the first
\* field it writes (publicURL on success, lastError on failure).  A connect
\* under a cancelled context does not succeed.
BgConnectResult(i) ==
    /\ inst[i].bg = "connecting"
    /\ \E outcome \in ConnectOutcomes :
          /\ outcome = "ok" => ~SvcCtxDone(i)
          /\ inst' = IF outcome = "ok"
                     THEN [inst EXCEPT ![i].handle = "open", ![i].sURL = IssuedURL(i),
                                       ![i].bg = "set_running"]
                     ELSE [inst EXCEPT ![i].sErr = ConnectErrMsg(inst[i].kind, inst[i].target,
                                                                 outcome),
                                       ![i].res = ProviderError(outcome),
                                       ![i].bg = IF outcome = "timeout"
                                                 THEN "set_error_timeout" ELSE "set_error"]
    /\ ret' = NoRet
    /\ UNCHANGED <<cfg, ngrokBuild, log, mcp, stdio, tunnels, mu, stopper, stopAll, reader, started>>

\* NgrokService.Start: the write of ns.status that follows.
BgSetStatus(i) ==
    /\ inst[i].bg \in {"set_running", "set_error", "set_error_timeout"}
    /\ inst' = IF inst[i].bg = "set_running"
               THEN [inst EXCEPT ![i].sStatus = "running", ![i].bg = "report_ok"]
               ELSE IF inst[i].bg = "set_error"
               THEN [inst EXCEPT ![i].sStatus = "error", ![i].startErr = inst[i].sErr,
                                 ![i].res = NoResult, ![i].bg = "report_err"]
               ELSE [inst EXCEPT ![i].sStatus = "error", ![i].bg = "timeout_cancel"]
    /\ ret' = NoRet
    /\ UNCHANGED <<cfg, ngrokBuild, log, mcp, stdio, tunnels, mu, stopper, stopAll, reader, started>>

\* NgrokService.Start, timeout branch: ns.cancel() and the return of the error.
BgTimeoutCancel(i) ==
    /\ inst[i].bg = "timeout_cancel"
    /\ inst' = [inst EXCEPT ![i].sCancel = CallCancel(inst[i].sCancel),
                            ![i].startErr = inst[i].sErr, ![i].bg = "report_err"]
    /\ ret' = NoRet
    /\ UNCHANGED <<cfg, ngrokBuild, log, mcp, stdio, tunnels, mu, stopper, stopAll, reader, started>>

\* BgReport of a goroutine that looks the TunnelState up in m.tunnels by id
\* instead of using the one it was launched with.
BgReportById(i) ==
    /\ inst[i].bg \in {"report_ok", "report_err"}
    /\ mu = "free"
    /\ LET k == tunnels[inst[i].id] IN
       inst' = IF inst[i].bg = "report_err"
               THEN [inst EXCEPT ![k].Status = "error", ![k].Error = inst[i].startErr,
                                 ![i].bg = "done"]
               ELSE [inst EXCEPT ![k].Status = "running", ![k].PublicURL = inst[i].sURL,
                                 ![i].bg = "wait"]
    /\ ret' = NoRet
    /\ UNCHANGED <<cfg, ngrokBuild, log, mcp, stdio, tunnels, mu, stopper, stopAll, reader, started>>

\* The goroutine of Manager.Start records what service.Start returned, under
\* m.mu.Lock(), in the TunnelState it was launched with.
BgReport(i) ==
    /\ inst[i].bg \in {"report_ok", "report_err"}
    /\ mu = "free"
    /\ inst' = IF inst[i].bg = "report_err"
               THEN [inst EXCEPT ![i].Status = "error", ![i].Error = inst[i].startErr,
                                 ![i].bg = "done"]
               ELSE [inst EXCEPT ![i].Status = "running", ![i].PublicURL = inst[i].sURL,
                                 ![i].bg = "wait"]
    /\ ret' = NoRet
    /\ UNCHANGED <<cfg, ngrokBuild, log, mcp, stdio, tunnels, mu, stopper, stopAll, reader, started>>

\* BgMarkStopped of a goroutine that also deletes the registry entry.
BgMarkStoppedForgets(i) ==
    /\ inst[i].bg = "wait"
    /\ inst[i].ctxDone
    /\ mu = "free"
    /\ inst' = [inst EXCEPT ![i].Status = "stopped", ![i].bg = "done"]
    /\ tunnels' = [tunnels EXCEPT ![inst[i].id] = 0]
    /\ ret' = NoRet
    /\ UNCHANGED <<cfg, ngrokBuild, log, mcp, stdio, mu, stopper, stopAll, reader, started>>

\* The goroutine of Manager.Start after <-ctx.Done().
BgMarkStopped(i) ==
    /\ inst[i].bg = "wait"
    /\ inst[i].ctxDone
    /\ mu = "free"
    /\ inst' = [inst EXCEPT ![i].Status = "stopped", ![i].bg = "done"]
    /\ ret' = NoRet
    /\ UNCHANGED <<cfg, ngrokBuild, log, mcp, stdio, tunnels, mu, stopper, stopAll, reader, started>>

-----------------------------------------------------------------------------
\* urlCapture.Write finds the URL in the session's output.  The capture
\* goroutine reads until runTunnel's deferred w.Close(), so it may still write
\* after app.RunContext returned.
CfCaptureURL(i) ==
    /\ inst[i].run \in {"app", "unwind"}
    /\ inst[i].sURL = ""
    /\ inst' = [inst EXCEPT ![i].sURL = IssuedURL(i), ![i].sStatus = "running"]
    /\ ret' = NoRet
    /\ UNCHANGED <<cfg, ngrokBuild, log, mcp, stdio, tunnels, mu, stopper, stopAll, reader, started>>

\* How app.RunContext may end: it returns nil, returns an error, or
\* cli.OsExiter panics.
AppOutcomes == {"nil", "err", "panic"}

\* runTunnel from the return of app.RunContext to the end of its body.
RunTunnelBody(i, outcome) ==
    IF outcome = "panic"
    THEN [inst EXCEPT ![i].run = "unwind", ![i].panicked = TRUE]
    ELSE IF SvcCtxDone(i) \/ outcome = "nil"
    THEN [inst EXCEPT ![i].run = "unwind"]
    ELSE [inst EXCEPT ![i].sErr = ErrCli, ![i].sStatus = "error", ![i].run = "unwind"]

CfAppExit(i) ==
    /\ inst[i].run = "app"
    /\ \E outcome \in AppOutcomes : inst' = RunTunnelBody(i, outcome)
    /\ ret' = NoRet
    /\ UNCHANGED <<cfg, ngrokBuild, log, mcp, stdio, tunnels, mu, stopper, stopAll, reader, started>>

\* runTunnel's deferred functions up to the one that sets status "stopped";
\* without a panic the remaining ones only call wg.Done().
RunTunnelDeferred(i) ==
    [inst EXCEPT ![i].sStatus = "stopped", ![i].sURL = "",
                 ![i].run = IF inst[i].panicked THEN "recover" ELSE "exited"]

CfUnwind(i) ==
    /\ inst[i].run = "unwind"
    /\ inst' = RunTunnelDeferred(i)
    /\ ret' = NoRet
    /\ UNCHANGED <<cfg, ngrokBuild, log, mcp, stdio, tunnels, mu, stopper, stopAll, reader, started>>

\* runTunnel's deferred recover(), then wg.Done().
CfRecover(i) ==
    /\ inst[i].run = "recover"
    /\ inst' = [inst EXCEPT ![i].sErr = ErrPanic, ![i].sStatus = "error",
                            ![i].run = "exited"]
    /\ ret' = NoRet
    /\ UNCHANGED <<cfg, ngrokBuild, log, mcp, stdio, tunnels, mu, stopper, stopAll, reader, started>>

-----------------------------------------------------------------------------
\* CloudflareService.Stop up to cs.wg.Wait(): stopper.pc becomes "fin" when it
\* returned at once, "wait" when it goes on to wait for runTunnel.
CloudflareStop(i) ==
    IF inst[i].sStatus = "stopped" THEN inst
    ELSE [inst EXCEPT ![i].sCancel = CallCancel(inst[i].sCancel)]

\* NgrokService.Stop of ngrok.go.
AgentStop(i) ==
    [inst EXCEPT ![i].sCancel = CallCancel(inst[i].sCancel), ![i].sStatus = "stopped",
                 ![i].sURL = "",
                 ![i].handle = IF inst[i].handle = "nil" THEN "nil" ELSE "closed"]

\* NgrokService.Stop of part_001; closeOK is whether ns.tunnel.Close()
\* returned nil.
ProxyStop(i, closeOK) ==
    IF inst[i].handle # "nil" /\ ~closeOK
    THEN [inst EXCEPT ![i].sCancel = CallCancel(inst[i].sCancel)]
    ELSE [inst EXCEPT ![i].sCancel = CallCancel(inst[i].sCancel), ![i].sStatus = "stopped",
                      ![i].handle = IF inst[i].handle = "nil" THEN "nil" ELSE "closed"]

\* A Stop call that returned: to the API caller, or to the loop of StopAll,
\* which logs the error, goes on with the ids left and returns nil after the
\* last one.
StopReturns(id, by, err) ==
    IF by = "api"
    THEN ret' = Ret("Stop", id, err) /\ UNCHANGED stopAll
    ELSE IF stopAll.todo \ {id} = {}
    THEN ret' = Ret("StopAll", "", "") /\ stopAll' = IdleStopAll
    ELSE ret' = NoRet /\ stopAll' = [stopAll EXCEPT !.todo = @ \ {id}]

\* StopError that also reports an entry whose adapter is stopped as not found.
StopErrorStoppedIsUnknown(id) ==
    IF tunnels[id] = 0 \/ inst[tunnels[id]].sStatus = "stopped" THEN ErrNotFound ELSE ""

\* The registry lookup of Manager.Stop: the error it returns, "" when the id
\* has an entry.
StopError(id) == IF tunnels[id] = 0 THEN ErrNotFound ELSE ""

\* Manager.Stop from m.mu.Lock() to state.cancel(): not found and already
\* stopped return at once, otherwise the call goes on holding m.mu.
StopBegin(id, by) ==
    /\ mu = "free"
    /\ IF StopError(id) # ""
       THEN /\ StopReturns(id, by, StopError(id))
            /\ UNCHANGED <<inst, mu, stopper>>
       ELSE IF inst[tunnels[id]].sStatus = "stopped"
       THEN /\ StopReturns(id, by, "")
            /\ UNCHANGED <<inst, mu, stopper>>
       ELSE /\ inst' = [inst EXCEPT ![tunnels[id]].ctxDone = TRUE]
            /\ mu' = "stop"
            /\ stopper' = [pc |-> "svc", id |-> id, i |-> tunnels[id], by |-> by,
                           err |-> ""]
            /\ ret' = NoRet
            /\ UNCHANGED stopAll
    /\ UNCHANGED <<cfg, ngrokBuild, log, mcp, stdio, tunnels, reader, started>>

\* Manager.Stop called by the API layer.
Stop(id) == StopBegin(id, "api")

\* Manager.Stop calls state.service.Stop().
StopService ==
    /\ stopper.pc = "svc"
    /\ LET i == stopper.i IN
       \/ /\ inst[i].kind = "cloudflare"
          /\ inst' = CloudflareStop(i)
          /\ stopper' = [stopper EXCEPT
                            !.pc = IF inst[i].sStatus = "stopped" THEN "fin" ELSE "wait"]
       \/ /\ inst[i].kind = "agent"
          /\ inst' = AgentStop(i)
          /\ stopper' = [stopper EXCEPT !.pc = "fin"]
       \/ /\ inst[i].kind = "proxy"
          /\ \E closeOK \in BOOLEAN :
                /\ inst' = ProxyStop(i, closeOK)
                /\ stopper' = [stopper EXCEPT !.pc = "fin",
                                  !.err = IF inst[i].handle # "nil" /\ ~closeOK
                                          THEN ErrClose ELSE ""]
    /\ ret' = NoRet
    /\ UNCHANGED <<cfg, ngrokBuild, log, mcp, stdio, tunnels, mu, stopAll, reader, started>>

\* WaitGroupZero of a Stop that also waits for the goroutine of Manager.Start
\* to finish.
WaitGroupZeroAndTaskDone(i) ==
    inst[i].run \in {"none", "exited"} /\ inst[i].bg = "done"

\* cs.wg.Wait() returns once runTunnel has called wg.Done().
WaitGroupZero(i) == inst[i].run \in {"none", "exited"}

\* StopFinish that returns the error of service.Stop() to its caller.
StopFinishPropagates ==
    /\ \/ stopper.pc = "fin"
       \/ stopper.pc = "wait" /\ inst[stopper.i].run \in {"none", "exited"}
    /\ inst' = [inst EXCEPT ![stopper.i].Status = "stopped"]
    /\ mu' = "free"
    /\ stopper' = IdleStopper
    /\ StopReturns(stopper.id, stopper.by, stopper.err)
    /\ UNCHANGED <<cfg, ngrokBuild, log, mcp, stdio, tunnels, reader, started>>

\* Manager.Stop after service.Stop() returned: state.Status = "stopped",
\* the deferred m.mu.Unlock() and return nil.
StopFinish ==
    /\ \/ stopper.pc = "fin"
       \/ stopper.pc = "wait" /\ WaitGroupZero(stopper.i)
    /\ inst' = [inst EXCEPT ![stopper.i].Status = "stopped"]
    /\ mu' = "free"
    /\ stopper' = IdleStopper
    /\ StopReturns(stopper.id, stopper.by, "")
    /\ UNCHANGED <<cfg, ngrokBuild, log, mcp, stdio, tunnels, reader, started>>

\* RegistryIds that collects only the ids whose entry has status running.
RegistryIdsRunning ==
    {id \in Ids : tunnels[id] # 0 /\ inst[tunnels[id]].Status = "running"}

\* The ids StopAll collects under m.mu.RLock().
RegistryIds == {id \in Ids : tunnels[id] # 0}

\* StopAll up to its loop; with an empty registry it returns nil at once.
StopAllBegin ==
    /\ ~stopAll.active
    /\ mu \in {"free", "read"}
    /\ IF RegistryIds = {}
       THEN ret' = Ret("StopAll", "", "") /\ UNCHANGED stopAll
       ELSE ret' = NoRet /\ stopAll' = [active |-> TRUE, todo |-> RegistryIds]
    /\ UNCHANGED <<cfg, ngrokBuild, log, mcp, stdio, tunnels, inst, mu, stopper, reader, started>>

\* StopAll calls m.Stop(id) for the next id (Go ranges over the map in no
\* fixed order).
StopAllStop ==
    /\ stopAll.active
    /\ \E id \in stopAll.todo : StopBegin(id, "all")

-----------------------------------------------------------------------------
\* GetStatusUnknown that answers an unknown id with a not-found error.
GetStatusUnknownNotFound(id) ==
    [op |-> "GetStatus", id |-> id, err |-> ErrNotFound, snap |-> NoSnap]

\* What Manager.GetStatus returns for an id with no registry entry.
GetStatusUnknown(id) ==
    [op |-> "GetStatus", id |-> id, err |-> "",
     snap |-> [Status |-> "stopped", PublicURL |-> "", Error |-> ""]]

\* Manager.GetStatus: m.mu.RLock(), the lookup, and for a known id the call of
\* state.service.GetStatus().  The three getters run one after the other.
GetStatusBegin(id) ==
    /\ mu = "free"
    /\ IF tunnels[id] = 0
       THEN /\ ret' = GetStatusUnknown(id)
            /\ UNCHANGED <<mu, reader>>
       ELSE /\ mu' = "read"
            /\ reader' = [pc |-> "url", id |-> id, i |-> tunnels[id],
                          Status |-> inst[tunnels[id]].sStatus, PublicURL |-> ""]
            /\ ret' = NoRet
    /\ UNCHANGED <<cfg, ngrokBuild, log, mcp, stdio, tunnels, inst, stopper, stopAll, started>>

\* Manager.GetStatus: state.service.GetPublicURL().
GetStatusURL ==
    /\ reader.pc = "url"
    /\ reader' = [reader EXCEPT !.pc = "err", !.PublicURL = inst[reader.i].sURL]
    /\ ret' = NoRet
    /\ UNCHANGED <<cfg, ngrokBuild, log, mcp, stdio, tunnels, inst, mu, stopper, stopAll, started>>

\* Manager.GetStatus: state.service.GetError(), m.mu.RUnlock() and the
\* return of the snapshot.
GetStatusReturn ==
    /\ reader.pc = "err"
    /\ ret' = [op |-> "GetStatus", id |-> reader.id, err |-> "",
               snap |-> [Status |-> reader.Status, PublicURL |-> reader.PublicURL,
                         Error |-> inst[reader.i].sErr]]
    /\ mu' = "free"
    /\ reader' = IdleReader
    /\ UNCHANGED <<cfg, ngrokBuild, log, mcp, stdio, tunnels, inst, stopper, stopAll, started>>

\* state.StartedAt: the time.Now() of the Manager.Start that made instance i;
\* the calls are ordered by m.mu, so the instance number stands for the time.
StartedAt(i) == i

\* GetAllEntry that copies the TunnelState's own fields.
GetAllEntryCached(id) ==
    [ID |-> inst[tunnels[id]].id, Status |-> inst[tunnels[id]].Status,
     PublicURL |-> inst[tunnels[id]].PublicURL, StartedAt |-> StartedAt(tunnels[id]),
     Error |-> inst[tunnels[id]].Error]

\* The TunnelState Manager.GetAllStatuses builds for the registry entry of id.
GetAllEntry(id) ==
    [ID |-> inst[tunnels[id]].id, Status |-> inst[tunnels[id]].sStatus,
     PublicURL |-> inst[tunnels[id]].sURL, StartedAt |-> StartedAt(tunnels[id]),
     Error |-> inst[tunnels[id]].sErr]

\* Manager.GetAllStatuses: under m.mu.RLock(), one entry for every key of
\* m.tunnels.  The getters of one call are taken in one step; what an adapter
\* moving between two getters does to a snapshot is GetStatusBegin,
\* GetStatusURL and GetStatusReturn's part.
GetAllStatuses ==
    /\ mu \in {"free", "read"}
    /\ ret' = [op |-> "GetAllStatuses", id |-> "", err |-> "", snap |-> NoSnap,
               all |-> [id \in {k \in Ids : tunnels[k] # 0} |-> GetAllEntry(id)]]
    /\ UNCHANGED <<cfg, ngrokBuild, log, mcp, stdio, tunnels, inst, mu, stopper, stopAll, reader, started>>

-----------------------------------------------------------------------------
\* DeleteTunnel of a server that also drops the runtime registry entry.
DeleteTunnelDropsEntry(id) ==
    /\ IF ~ValidUUID(id)
       THEN ret' = Ret("DeleteTunnel", id, ErrInvalidID) /\ UNCHANGED <<cfg, tunnels>>
       ELSE IF cfg[id] = NoDef
       THEN ret' = Ret("DeleteTunnel", id, ErrNotFound) /\ UNCHANGED <<cfg, tunnels>>
       ELSE /\ ret' = Ret("DeleteTunnel", id, "")
            /\ cfg' = [cfg EXCEPT ![id] = NoDef]
            /\ tunnels' = [tunnels EXCEPT ![id] = 0]
    /\ UNCHANGED <<ngrokBuild, log, mcp, stdio, inst, mu, stopper, stopAll, reader, started>>

\* config.Manager.DeleteTunnel, as Server.deleteTunnel calls it: the runtime
\* registry is not consulted.
DeleteTunnel(id) ==
    /\ IF ~ValidUUID(id)
       THEN ret' = Ret("DeleteTunnel", id, ErrInvalidID) /\ UNCHANGED cfg
       ELSE IF cfg[id] = NoDef
       THEN ret' = Ret("DeleteTunnel", id, ErrNotFound) /\ UNCHANGED cfg
       ELSE ret' = Ret("DeleteTunnel", id, "") /\ cfg' = [cfg EXCEPT ![id] = NoDef]
    /\ UNCHANGED <<ngrokBuild, log, mcp, stdio, tunnels, inst, mu, stopper, stopAll, reader, started>>

-----------------------------------------------------------------------------
\* The state after service.NewManager, over a store that holds a cloudflare
\* definition "c1" and an ngrok definition "n1".
InitTunnels(build, cloudflareTargets, ngrokTargets) ==
    /\ \E ct \in cloudflareTargets, nt \in ngrokTargets :
          cfg = [id \in Ids |->
                    IF id = "c1"
                    THEN [Type |-> "cloudflare", Target |-> ct, MCPEnabled |-> FALSE]
                    ELSE IF id = "n1"
                    THEN [Type |-> "ngrok", Target |-> nt, MCPEnabled |-> FALSE]
                    ELSE NoDef]
    /\ ngrokBuild = build
    /\ tunnels = [id \in Ids |-> 0]
    /\ inst = <<>>
    /\ mu = "free"
    /\ stopper = IdleStopper
    /\ stopAll = IdleStopAll
    /\ reader = IdleReader
    /\ ret = NoRet
    /\ started = {}
    /\ stdio = OriginalStdio
    /\ mcp = IdleMcp

\* The state after service.NewManager and logger.Init.
InitStore(build, cloudflareTargets, ngrokTargets) ==
    /\ InitTunnels(build, cloudflareTargets, ngrokTargets)
    /\ log = NewLogger(BufSize, FALSE)

\* The build of go.mod (golang.ngrok.com/ngrok/v2): NgrokService of ngrok.go,
\* which never parses its target.
Init == InitStore("agent", AnyTargets, GoodTargets)

\* The build with NgrokService of part_001, which parses its target.
InitProxy == InitStore("proxy", GoodTargets, AnyTargets)

\* The ngrok targets of the three protocol paths.
NgrokTargets == {"http://localhost:8080", "tcp://localhost:22", "tls://localhost:443"}

\* The build of go.mod with an ngrok definition on any of the three paths.
InitNgrok == InitStore("agent", GoodTargets, NgrokTargets)

\* Start and Stop from the API layer, the goroutines of Manager.Start and the
\* adapters' own steps.
NextLifecycle ==
    \/ \E id \in Ids : Start(id)
    \/ \E i \in Insts : BgServiceStart(i)
    \/ \E i \in Insts : BgConnectResult(i)
    \/ \E i \in Insts : BgSetStatus(i)
    \/ \E i \in Insts : BgTimeoutCancel(i)
    \/ \E i \in Insts : BgReport(i)
    \/ \E i \in Insts : BgMarkStopped(i)
    \/ \E i \in Insts : CfCaptureURL(i)
    \/ \E i \in Insts : CfAppExit(i)
    \/ \E i \in Insts : CfUnwind(i)
    \/ \E i \in Insts : CfRecover(i)
    \/ \E id \in Ids : Stop(id)
    \/ StopService
    \/ StopFinish

Next ==
    \/ NextLifecycle
    \/ StopAllBegin
    \/ StopAllStop
    \/ \E id \in Ids : GetStatusBegin(id)
    \/ GetStatusURL
    \/ GetStatusReturn
    \/ GetAllStatuses

Spec == Init /\ [][Next]_vars

SpecProxy == InitProxy /\ [][Next]_vars

SpecNgrok == InitNgrok /\ [][NextLifecycle]_vars

\* What client.Do(targetReq) may do for one request.
ForwardOutcomes == {"ok", "fail"}

\* The reply of the handler to one tunneled request of instance i.
Reply(i, forwardErr, code) ==
    [op |-> "Request", id |-> inst[i].id, err |-> "", snap |-> NoSnap,
     i |-> i, forwardErr |-> forwardErr, code |-> code]

\* ProxyRequest of a handler that gives the tunnel up when forwarding fails.
ProxyRequestTearsDown(i) ==
    /\ inst[i].kind = "proxy"
    /\ inst[i].handle = "open"
    /\ inst[i].bg \in {"report_ok", "wait", "done"}
    /\ \E outcome \in ForwardOutcomes :
          /\ outcome = "ok" => ~SvcCtxDone(i)
          /\ ret' = IF outcome = "ok" THEN Reply(i, FALSE, 200) ELSE Reply(i, TRUE, 502)
          /\ inst' = IF outcome = "ok" THEN inst
                     ELSE [inst EXCEPT ![i].sStatus = "error", ![i].handle = "closed"]
    /\ UNCHANGED <<cfg, ngrokBuild, log, mcp, stdio, tunnels, mu, stopper, stopAll, reader, started>>

\* The http.HandlerFunc of NgrokService.Start (part_001) serves one request
\* that arrived on ns.tunnel: it forwards a clone bound to ns.ctx to the
\* target, answers 502 if client.Do fails and the upstream's status otherwise.
\* http.Serve runs from the end of Start until the tunnel is closed.
ProxyRequest(i) ==
    /\ inst[i].kind = "proxy"
    /\ inst[i].handle = "open"
    /\ inst[i].bg \in {"report_ok", "wait", "done"}
    /\ \E outcome \in ForwardOutcomes :
          /\ outcome = "ok" => ~SvcCtxDone(i)
          /\ ret' = IF outcome = "ok" THEN Reply(i, FALSE, 200) ELSE Reply(i, TRUE, 502)
    /\ UNCHANGED <<cfg, ngrokBuild, log, mcp, stdio, tunnels, inst, mu, stopper, stopAll, reader, started>>

NextProxyServe ==
    \/ NextLifecycle
    \/ \E i \in Insts : ProxyRequest(i)

SpecProxyServe == InitProxy /\ [][NextProxyServe]_vars

\* Start and Stop with the store's definitions being deleted under them.
NextStore ==
    \/ NextLifecycle
    \/ \E id \in Ids : DeleteTunnel(id)

SpecStore == Init /\ [][NextStore]_vars

-----------------------------------------------------------------------------
\* CloudflareService.runTunnel step by step, with the process-wide streams it
\* redirects.  (CfCaptureURL, CfAppExit and CfUnwind above are the same
\* session seen by itself: its output reaches its own pipe.)

\* runTunnel saves os.Stdout / os.Stderr and points both at its pipe.
RunTunnelRedirect(i) ==
    /\ inst[i].run = "app"
    /\ stdio.sess[i].pc = "init"
    /\ stdio' = [stdio EXCEPT !.out = i, !.sess[i].old = stdio.out,
                              !.sess[i].pc = "run"]
    /\ ret' = NoRet
    /\ UNCHANGED <<cfg, ngrokBuild, log, mcp, tunnels, inst, mu, stopper, stopAll, reader, started>>

\* The cloudflared command run by app.RunContext opens its log output on what
\* os.Stderr is at that moment.
CloudflaredOpenLog(i) ==
    /\ inst[i].run = "app"
    /\ stdio.sess[i].pc = "run"
    /\ stdio' = [stdio EXCEPT !.sess[i].sink = stdio.out, !.sess[i].pc = "bound"]
    /\ ret' = NoRet
    /\ UNCHANGED <<cfg, ngrokBuild, log, mcp, tunnels, inst, mu, stopper, stopAll, reader, started>>

\* urlCapture.Write of the adapter of instance j is handed text that holds
\* the URL url.
urlCaptureWrite(j, url) ==
    IF inst[j].sURL = ""
    THEN [inst EXCEPT ![j].sURL = url, ![j].sStatus = "running"]
    ELSE inst

\* The session of instance i logs the URL the provider issued to it.  What
\* is written to the pipe of session j is read by the capture goroutine of
\* runTunnel j; what is written to a closed pipe or to the original stream is
\* seen by no urlCapture.
CloudflaredPrintURL(i) ==
    /\ inst[i].run = "app"
    /\ stdio.sess[i].pc = "bound"
    /\ LET j == stdio.sess[i].sink IN
          inst' = IF j # 0 /\ ~stdio.sess[j].closed
                  THEN urlCaptureWrite(j, IssuedURL(i))
                  ELSE inst
    /\ stdio' = [stdio EXCEPT !.sess[i].pc = "printed"]
    /\ ret' = NoRet
    /\ UNCHANGED <<cfg, ngrokBuild, log, mcp, tunnels, mu, stopper, stopAll, reader, started>>

\* app.RunContext returns (or panics) and runTunnel's body ends.
RunTunnelAppExit(i) ==
    /\ inst[i].run = "app"
    /\ stdio.sess[i].pc \in {"run", "bound", "printed"}
    /\ \E outcome \in AppOutcomes : inst' = RunTunnelBody(i, outcome)
    /\ stdio' = [stdio EXCEPT !.sess[i].pc = "exit"]
    /\ ret' = NoRet
    /\ UNCHANGED <<cfg, ngrokBuild, log, mcp, tunnels, mu, stopper, stopAll, reader, started>>

\* runTunnel's last registered deferred function: os.Stdout = oldStdout,
\* os.Stderr = oldStderr, w.Close(), <-done.
RunTunnelRestore(i) ==
    /\ inst[i].run = "unwind"
    /\ stdio.sess[i].pc = "exit"
    /\ stdio' = [stdio EXCEPT !.out = stdio.sess[i].old, !.sess[i].closed = TRUE,
                              !.sess[i].pc = "restored"]
    /\ ret' = NoRet
    /\ UNCHANGED <<cfg, ngrokBuild, log, mcp, tunnels, inst, mu, stopper, stopAll, reader, started>>

\* The deferred function that sets status "stopped" runs next.
RunTunnelUnwind(i) ==
    /\ inst[i].run = "unwind"
    /\ stdio.sess[i].pc = "restored"
    /\ inst' = RunTunnelDeferred(i)
    /\ stdio' = [stdio EXCEPT !.sess[i].pc = "done"]
    /\ ret' = NoRet
    /\ UNCHANGED <<cfg, ngrokBuild, log, mcp, tunnels, mu, stopper, stopAll, reader, started>>

\* A store that holds two cloudflare definitions, "c1" and "n1".
InitStdio ==
    /\ cfg = [id \in Ids |->
                 IF id \in {"c1", "n1"}
                 THEN [Type |-> "cloudflare", Target |-> "http://localhost:8080",
                       MCPEnabled |-> FALSE]
                 ELSE NoDef]
    /\ ngrokBuild = "agent"
    /\ tunnels = [id \in Ids |-> 0]
    /\ inst = <<>>
    /\ mu = "free"
    /\ stopper = IdleStopper
    /\ stopAll = IdleStopAll
    /\ reader = IdleReader
    /\ ret = NoRet
    /\ started = {}
    /\ stdio = OriginalStdio
    /\ mcp = IdleMcp
    /\ log = NewLogger(BufSize, FALSE)

NextStdio ==
    \/ \E id \in Ids : Start(id)
    \/ \E i \in Insts : BgServiceStart(i)
    \/ \E i \in Insts : BgReport(i)
    \/ \E i \in Insts : RunTunnelRedirect(i)
    \/ \E i \in Insts : CloudflaredOpenLog(i)
    \/ \E i \in Insts : CloudflaredPrintURL(i)
    \/ \E i \in Insts : RunTunnelAppExit(i)
    \/ \E i \in Insts : RunTunnelRestore(i)
    \/ \E i \in Insts : RunTunnelUnwind(i)
    \/ \E i \in Insts : CfRecover(i)

SpecStdio == InitStdio /\ [][NextStdio]_vars

-----------------------------------------------------------------------------
\* The configuration manager's writes to the store.

\* What a caller of AddTunnel / UpdateTunnel may pass.
ConfigNames == {"", "web"}
ConfigTypes == {"cloudflare", "ngrok", "ssh"}
ConfigTargets == {"", "http://localhost:8080", "tcp://localhost:22", "ftp://files"}

ErrNameRequired == "tunnel name is required"
ErrInvalidType == "invalid tunnel type"
ErrTargetRequired == "tunnel target is required"
ErrConstraint == "constraint failed"

\* The scheme of a target URL.
Scheme(target) ==
    CASE target = "http://localhost:8080" -> "http"
      [] target = "tcp://localhost:22" -> "tcp"
      [] target = "ftp://files" -> "ftp"
      [] OTHER -> ""

\* config.Manager.validateTunnel: the error it returns, "" for nil.
validateTunnel(name, type, target) ==
    IF name = "" THEN ErrNameRequired
    ELSE IF type # "cloudflare" /\ type # "ngrok" THEN ErrInvalidType
    ELSE IF target = "" THEN ErrTargetRequired
    ELSE ""

\* config.Manager.AddTunnel with the ID field of its argument set to id; with
\* id "" uuid.New() makes an id the store does not hold.
AddTunnel(id, name, type, target, mcpEnabled) ==
    /\ IF validateTunnel(name, type, target) # ""
       THEN ret' = Ret("AddTunnel", id, validateTunnel(name, type, target)) /\ UNCHANGED cfg
       ELSE IF id = ""
       THEN \E new \in Ids :
               /\ ValidUUID(new) /\ cfg[new] = NoDef
               /\ cfg' = [cfg EXCEPT ![new] = [Type |-> type, Target |-> target,
                                                     MCPEnabled |-> mcpEnabled]]
               /\ ret' = Ret("AddTunnel", new, "")
       ELSE IF ~ValidUUID(id)
       THEN ret' = Ret("AddTunnel", id, ErrInvalidID) /\ UNCHANGED cfg
       ELSE IF cfg[id] # NoDef
       THEN ret' = Ret("AddTunnel", id, ErrConstraint) /\ UNCHANGED cfg
       ELSE /\ cfg' = [cfg EXCEPT ![id] = [Type |-> type, Target |-> target,
                                             MCPEnabled |-> mcpEnabled]]
            /\ ret' = Ret("AddTunnel", id, "")
    /\ UNCHANGED <<ngrokBuild, log, mcp, stdio, tunnels, inst, mu, stopper, stopAll, reader, started>>

\* config.Manager.UpdateTunnel
UpdateTunnel(id, name, type, target, mcpEnabled) ==
    /\ IF validateTunnel(name, type, target) # ""
       THEN ret' = Ret("UpdateTunnel", id, validateTunnel(name, type, target)) /\ UNCHANGED cfg
       ELSE IF ~ValidUUID(id)
       THEN ret' = Ret("UpdateTunnel", id, ErrInvalidID) /\ UNCHANGED cfg
       ELSE IF cfg[id] = NoDef
       THEN ret' = Ret("UpdateTunnel", id, ErrNotFound) /\ UNCHANGED cfg
       ELSE /\ cfg' = [cfg EXCEPT ![id] = [Type |-> type, Target |-> target,
                                             MCPEnabled |-> mcpEnabled]]
            /\ ret' = Ret("UpdateTunnel", id, "")
    /\ UNCHANGED <<ngrokBuild, log, mcp, stdio, tunnels, inst, mu, stopper, stopAll, reader, started>>

NextConfig ==
    \/ \E id \in Ids \cup {""}, name \in ConfigNames, type \in ConfigTypes,
          target \in ConfigTargets, mcpEnabled \in BOOLEAN :
             AddTunnel(id, name, type, target, mcpEnabled)
    \/ \E id \in Ids, name \in ConfigNames, type \in ConfigTypes,
          target \in ConfigTargets, mcpEnabled \in BOOLEAN :
             UpdateTunnel(id, name, type, target, mcpEnabled)
    \/ \E id \in Ids : DeleteTunnel(id)

SpecConfig == Init /\ [][NextConfig]_vars

-----------------------------------------------------------------------------
\* Manager.Start and what it sets going, with no Stop: the goroutines of
\* Manager.Start and the adapters' sessions.
NextStart ==
    \/ \E id \in Ids : Start(id)
    \/ \E i \in Insts : BgServiceStart(i)
    \/ \E i \in Insts : BgConnectResult(i)
    \/ \E i \in Insts : BgSetStatus(i)
    \/ \E i \in Insts : BgTimeoutCancel(i)
    \/ \E i \in Insts : BgReport(i)
    \/ \E i \in Insts : CfCaptureURL(i)
    \/ \E i \in Insts : CfAppExit(i)
    \/ \E i \in Insts : CfUnwind(i)
    \/ \E i \in Insts : CfRecover(i)

\* What the Go scheduler and the timers of the code guarantee: a goroutine
\* that can take its next step takes it, and the select of NgrokService.Start
\* ends (time.After fires when nothing else does).  Nothing makes the provider
\* print a URL or makes app.RunContext return: CfCaptureURL and CfAppExit are
\* not fair.
FairStart ==
    \A i \in 1..MaxInst :
        /\ WF_vars(i \in Insts /\ BgServiceStart(i))
        /\ WF_vars(i \in Insts /\ BgConnectResult(i))
        /\ WF_vars(i \in Insts /\ BgSetStatus(i))
        /\ WF_vars(i \in Insts /\ BgTimeoutCancel(i))
        /\ WF_vars(i \in Insts /\ BgReport(i))
        /\ WF_vars(i \in Insts /\ CfUnwind(i))
        /\ WF_vars(i \in Insts /\ CfRecover(i))

SpecStartFair == Init /\ [][NextStart]_vars /\ FairStart

\* What the scheduler guarantees of a Manager.Stop in progress and of the
\* goroutine that waits on <-ctx.Done(), and what the cloudflared library
\* guarantees: app.RunContext returns once its context is cancelled.
FairStop ==
    /\ WF_vars(StopService)
    /\ WF_vars(StopFinish)
    /\ \A i \in 1..MaxInst :
          /\ WF_vars(i \in Insts /\ BgMarkStopped(i))
          /\ WF_vars(i \in Insts /\ SvcCtxDone(i) /\ CfAppExit(i))

SpecLifecycleFair == Init /\ [][NextLifecycle]_vars /\ FairStart /\ FairStop

\* Start, Stop and StopAll with the goroutines and sessions they drive.
NextStopping ==
    \/ NextLifecycle
    \/ StopAllBegin
    \/ StopAllStop

\* What a Stop in progress relies on: the scheduler runs the Stop itself and
\* the deferred functions of runTunnel, and app.RunContext returns once its
\* context is cancelled.
FairTeardown ==
    /\ WF_vars(StopService)
    /\ WF_vars(StopFinish)
    /\ \A i \in 1..MaxInst :
          /\ WF_vars(i \in Insts /\ SvcCtxDone(i) /\ CfAppExit(i))
          /\ WF_vars(i \in Insts /\ CfUnwind(i))
          /\ WF_vars(i \in Insts /\ CfRecover(i))

\* sync.RWMutex lets no waiter starve: the m.Stop(id) that StopAll's loop has
\* called gets m.mu although other callers keep taking it.
FairStopAll == SF_vars(StopAllStop)

\* The build of go.mod over a store whose targets both parse.
InitGood == InitStore("agent", GoodTargets, GoodTargets)

SpecStoppingFair ==
    InitGood /\ [][NextStopping]_vars /\ FairTeardown /\ FairStopAll

-----------------------------------------------------------------------------
\* The tools of the MCP server.

ErrIdRequired == "tunnel_id is required"
ErrNotMCPEnabled == "tunnel is not MCP-enabled"
ErrStartFailed == "failed to start tunnel"

\* The order in which config.Manager.GetAllTunnels returns the stored
\* definitions.
TunnelOrder == <<"c1", "n1", "u1">>

\* config.Manager.GetAllTunnels: the ids of the stored definitions.
GetAllTunnels == SelectSeq(TunnelOrder, LAMBDA id : cfg[id] # NoDef)

\* The loop of listTunnels over ts from position i (counted from 0): a
\* definition that is not MCP-enabled is skipped, the others are appended with
\* what Manager.GetStatus reports for them.
RECURSIVE listLoop(_, _, _)
listLoop(ts, i, acc) ==
    IF i >= Len(ts) THEN acc
    ELSE IF ~cfg[ts[i + 1]].MCPEnabled THEN listLoop(ts, i + 1, acc)
    ELSE listLoop(ts, i + 1,
                  Append(acc, [Index |-> i + 1, ID |-> ts[i + 1],
                               Type |-> cfg[ts[i + 1]].Type,
                               Target |-> cfg[ts[i + 1]].Target,
                               Status |-> IF tunnels[ts[i + 1]] = 0 THEN "stopped"
                                          ELSE inst[tunnels[ts[i + 1]]].sStatus,
                               PublicURL |-> IF tunnels[ts[i + 1]] = 0 THEN ""
                                             ELSE inst[tunnels[ts[i + 1]]].sURL]))

\* mcp.Server.listTunnels: response.Tunnels and response.Count.
listTunnels ==
    /\ mu \in {"free", "read"}
    /\ ret' = [op |-> "listTunnels", id |-> "", err |-> "", snap |-> NoSnap,
               Tunnels |-> listLoop(GetAllTunnels, 0, <<>>),
               Count |-> Len(listLoop(GetAllTunnels, 0, <<>>))]
    /\ UNCHANGED <<cfg, ngrokBuild, log, mcp, stdio, tunnels, inst, mu, stopper, stopAll, reader,
                   started>>

\* mcp.Server.startTunnel up to its test of MCPEnabled: the definition is
\* read by cfgMgr.GetTunnel, outside any lock of the service Manager.
startTunnelCheck(id) ==
    /\ mcp.pc = "idle"
    /\ IF id = ""
       THEN ret' = Ret("startTunnel", id, ErrIdRequired) /\ UNCHANGED mcp
       ELSE IF GetTunnel(id).err # ""
       THEN ret' = Ret("startTunnel", id, ErrNotFound) /\ UNCHANGED mcp
       ELSE IF ~GetTunnel(id).def.MCPEnabled
       THEN ret' = Ret("startTunnel", id, ErrNotMCPEnabled) /\ UNCHANGED mcp
       ELSE ret' = NoRet /\ mcp' = [pc |-> "start", id |-> id, err |-> ""]
    /\ UNCHANGED <<cfg, ngrokBuild, log, stdio, tunnels, inst, mu, stopper, stopAll, reader, started>>

\* mcp.Server.startTunnel: s.svcMgr.Start(params.TunnelID).
startTunnelStart ==
    /\ mcp.pc = "start"
    /\ ManagerStart(mcp.id)
    /\ mcp' = [mcp EXCEPT !.pc = "return", !.err = StartError(mcp.id)]

\* mcp.Server.startTunnel: the error return after a failed Start, or
\* s.svcMgr.GetStatus and the response.
startTunnelReturn ==
    /\ mcp.pc = "return"
    /\ mu \in {"free", "read"}
    /\ ret' = IF mcp.err # ""
              THEN Ret("startTunnel", mcp.id, ErrStartFailed)
              ELSE [op |-> "startTunnel", id |-> mcp.id, err |-> "",
                    snap |-> [Status |-> inst[tunnels[mcp.id]].sStatus,
                              PublicURL |-> inst[tunnels[mcp.id]].sURL,
                              Error |-> ""]]
    /\ mcp' = IdleMcp
    /\ UNCHANGED <<cfg, ngrokBuild, log, stdio, tunnels, inst, mu, stopper, stopAll, reader, started>>

\* A store whose two definitions may or may not be MCP-enabled.
InitMCP ==
    /\ \E ce \in BOOLEAN, ne \in BOOLEAN :
          cfg = [id \in Ids |->
                    IF id = "c1"
                    THEN [Type |-> "cloudflare", Target |-> "http://localhost:8080",
                          MCPEnabled |-> ce]
                    ELSE IF id = "n1"
                    THEN [Type |-> "ngrok", Target |-> "http://localhost:8080",
                          MCPEnabled |-> ne]
                    ELSE NoDef]
    /\ ngrokBuild = "agent"
    /\ tunnels = [id \in Ids |-> 0]
    /\ inst = <<>>
    /\ mu = "free"
    /\ stopper = IdleStopper
    /\ stopAll = IdleStopAll
    /\ reader = IdleReader
    /\ ret = NoRet
    /\ started = {}
    /\ stdio = OriginalStdio
    /\ mcp = IdleMcp
    /\ log = NewLogger(BufSize, FALSE)

\* The MCP tools, the HTTP API's update of a definition (which may switch
\* MCPEnabled) and the goroutines a Start sets going.
NextMCP ==
    \/ \E id \in Ids \cup {""} : startTunnelCheck(id)
    \/ startTunnelStart
    \/ startTunnelReturn
    \/ listTunnels
    \/ \E id \in Ids, mcpEnabled \in BOOLEAN :
          UpdateTunnel(id, "web", cfg[id].Type, cfg[id].Target, mcpEnabled)
    \/ \E i \in Insts : BgServiceStart(i)
    \/ \E i \in Insts : BgConnectResult(i)
    \/ \E i \in Insts : BgSetStatus(i)
    \/ \E i \in Insts : BgTimeoutCancel(i)
    \/ \E i \in Insts : BgReport(i)

SpecMCP == InitMCP /\ [][NextMCP]_vars
-----------------------------------------------------------------------------
\* Package logger: the CircularBuffer and the broadcast to subscribers.

TunnelVars == <<cfg, ngrokBuild, tunnels, inst, mu, stopper, stopAll, reader, ret, started,
                stdio, mcp>>

\* CircularBuffer.Add: append until the slice holds size entries, then
\* overwrite entries[index] and advance index modulo size.  (Indices of Go
\* slices count from 0, those of sequences from 1.)
Add(cb, entry) ==
    IF Len(cb.entries) < cb.size
    THEN [cb EXCEPT !.entries = Append(@, entry)]
    ELSE [cb EXCEPT !.entries[cb.index + 1] = entry,
                    !.index = (cb.index + 1) % cb.size]

\* CircularBuffer.GetAll: a new slice holding entries[index:] followed by
\* entries[:index], or all entries while fewer than size are held.
GetAll(cb) ==
    IF Len(cb.entries) < cb.size
    THEN cb.entries
    ELSE SubSeq(cb.entries, cb.index + 1, cb.size) \o SubSeq(cb.entries, 1, cb.index)

\* The contents of the slice the last GetAll returned, as its holder sees it
\* now: a slice that shares the buffer's array shows the buffer's writes.
SnapshotNow ==
    IF log.snap.shared /\ Len(log.cb.entries) >= Len(log.snap.val)
    THEN SubSeq(log.cb.entries, 1, Len(log.snap.val))
    ELSE log.snap.val

\* buffer.Add(entry) with the next entry; entries are numbered in the order
\* they are added.
BufferAdd ==
    /\ Len(log.added) < MaxAdds
    /\ log' = [log EXCEPT !.cb = Add(log.cb, Len(log.added) + 1),
                          !.added = Append(@, Len(log.added) + 1)]
    /\ UNCHANGED TunnelVars

\* GetRecentLogs that hands out cb.entries itself while the buffer is not full.
GetRecentLogsNoCopy ==
    /\ log' = [log EXCEPT !.snap = [taken |-> TRUE, at |-> Len(log.added),
                                    val |-> GetAll(log.cb),
                                    shared |-> Len(log.cb.entries) < log.cb.size]]
    /\ UNCHANGED TunnelVars

\* GetRecentLogs: buffer.GetAll(), whose result is made with make and copy.
GetRecentLogs ==
    /\ log' = [log EXCEPT !.snap = [taken |-> TRUE, at |-> Len(log.added),
                                    val |-> GetAll(log.cb), shared |-> FALSE]]
    /\ UNCHANGED TunnelVars

\* A logger whose buffer has any capacity from 1 to MaxBufSize.
InitBuffer ==
    /\ InitTunnels("agent", GoodTargets, GoodTargets)
    /\ \E size \in 1..MaxBufSize : log = NewLogger(size, FALSE)

NextBuffer ==
    \/ BufferAdd
    \/ GetRecentLogs

SpecBuffer == InitBuffer /\ [][NextBuffer]_vars

\* close(sub.Channel): closing a closed channel panics.
CloseChannel(l, c) ==
    IF l.chans[c].closed
    THEN [l EXCEPT !.panicked = "close of closed channel"]
    ELSE [l EXCEPT !.chans[c].closed = TRUE]

\* broadcastWriter.Write: the entry is made and given to buffer.Add.
WriteAdd(w) ==
    /\ log.writer[w].pc = "idle"
    /\ Len(log.added) < MaxWrites
    /\ log' = [log EXCEPT !.cb = Add(log.cb, Len(log.added) + 1),
                          !.added = Append(@, Len(log.added) + 1),
                          !.writer[w] = [pc |-> "rlock", entry |-> Len(log.added) + 1,
                                         todo |-> {}]]
    /\ UNCHANGED TunnelVars

\* broadcastWriter.Write: mu.RLock() and the start of the range over subs.
WriteRLock(w) ==
    /\ log.writer[w].pc = "rlock"
    /\ ~log.lock
    /\ log' = [log EXCEPT !.rlocks = @ + 1,
                          !.writer[w].pc = "send",
                          !.writer[w].todo = {id \in SubIds : log.subs[id] # 0}]
    /\ UNCHANGED TunnelVars

\* The select of Write for one subscriber: the entry is sent and LastSeen set
\* when the channel has room, the default case is taken when it is full.
\* A send on a closed channel panics.
SendOrDrop(l, c, entry) ==
    IF l.chans[c].closed
    THEN [l EXCEPT !.panicked = "send on closed channel"]
    ELSE IF Len(l.chans[c].buf) < ChanCap
    THEN [l EXCEPT !.chans[c].buf = Append(@, entry), !.chans[c].stale = FALSE]
    ELSE l

\* broadcastWriter.Write: one turn of the loop over subs.
WriteSend(w) ==
    /\ log.writer[w].pc = "send"
    /\ \E id \in log.writer[w].todo :
          log' = [SendOrDrop(log, log.subs[id], log.writer[w].entry) EXCEPT
                     !.writer[w].todo = @ \ {id}]
    /\ UNCHANGED TunnelVars

\* broadcastWriter.Write: mu.RUnlock() and the return.
WriteRUnlock(w) ==
    /\ log.writer[w].pc = "send"
    /\ log.writer[w].todo = {}
    /\ log' = [log EXCEPT !.rlocks = @ - 1, !.writer[w] = IdleWriter]
    /\ UNCHANGED TunnelVars

\* Subscribe(id), under mu.Lock(): a new channel is stored under id.
Subscribe(id) ==
    /\ ~log.lock /\ log.rlocks = 0
    /\ Len(log.chans) < MaxChans
    /\ log' = [log EXCEPT
                  !.chans = Append(@, [buf |-> <<>>, closed |-> FALSE, stale |-> FALSE]),
                  !.subs[id] = Len(log.chans) + 1]
    /\ UNCHANGED TunnelVars

\* Unsubscribe(id), under mu.Lock(): close and delete if id is in subs.
Unsubscribe(id) ==
    /\ ~log.lock /\ log.rlocks = 0
    /\ log' = IF log.subs[id] # 0
              THEN [CloseChannel(log, log.subs[id]) EXCEPT !.subs[id] = 0]
              ELSE log
    /\ UNCHANGED TunnelVars

\* The SSE handler takes an entry from its channel.
Receive(c) ==
    /\ log.chans[c].buf # <<>>
    /\ log' = [log EXCEPT !.chans[c].buf = Tail(@)]
    /\ UNCHANGED TunnelVars

\* More than the timeout passes: every LastSeen is now too old.
Tick ==
    /\ \E c \in 1..Len(log.chans) : ~log.chans[c].stale
    /\ log' = [log EXCEPT !.chans = [c \in 1..Len(log.chans) |->
                                        [log.chans[c] EXCEPT !.stale = TRUE]]]
    /\ UNCHANGED TunnelVars

\* CleanupInactiveSubscribers: mu.Lock() and the start of the range over subs.
CleanupLock ==
    /\ log.cleaner.pc = "idle"
    /\ ~log.lock /\ log.rlocks = 0
    /\ log' = [log EXCEPT !.lock = TRUE,
                          !.cleaner = [pc |-> "loop",
                                       todo |-> {id \in SubIds : log.subs[id] # 0}]]
    /\ UNCHANGED TunnelVars

\* CleanupInactiveSubscribers: one turn of the loop.  A subscriber whose
\* LastSeen is too old is closed and deleted, and Sugar.Debugf is called: at
\* debug level that is a broadcastWriter.Write, which adds to the buffer and
\* then calls mu.RLock() on the mutex this goroutine holds, and never returns.
CleanupOne ==
    /\ log.cleaner.pc = "loop"
    /\ \E id \in log.cleaner.todo :
          IF ~log.chans[log.subs[id]].stale
          THEN log' = [log EXCEPT !.cleaner.todo = @ \ {id}]
          ELSE IF ~log.debug
          THEN log' = [CloseChannel(log, log.subs[id]) EXCEPT
                          !.subs[id] = 0, !.cleaner.todo = @ \ {id}]
          ELSE /\ Len(log.added) < MaxWrites
               /\ log' = [CloseChannel(log, log.subs[id]) EXCEPT
                             !.subs[id] = 0, !.cleaner.todo = @ \ {id},
                             !.cleaner.pc = "debugf",
                             !.cb = Add(log.cb, Len(log.added) + 1),
                             !.added = Append(@, Len(log.added) + 1)]
    /\ UNCHANGED TunnelVars

\* CleanupInactiveSubscribers: the deferred mu.Unlock().
CleanupUnlock ==
    /\ log.cleaner.pc = "loop"
    /\ log.cleaner.todo = {}
    /\ log' = [log EXCEPT !.lock = FALSE, !.cleaner = IdleCleaner]
    /\ UNCHANGED TunnelVars

NextBroadcast ==
    \/ \E w \in Writers : WriteAdd(w)
    \/ \E w \in Writers : WriteRLock(w)
    \/ \E w \in Writers : WriteSend(w)
    \/ \E w \in Writers : WriteRUnlock(w)
    \/ \E id \in SubIds : Subscribe(id)
    \/ \E id \in SubIds : Unsubscribe(id)
    \/ \E c \in 1..Len(log.chans) : Receive(c)
    \/ Tick
    \/ CleanupLock
    \/ CleanupOne
    \/ CleanupUnlock

\* A logger at either log level.
InitBroadcast ==
    /\ InitTunnels("agent", GoodTargets, GoodTargets)
    /\ \E debug \in BOOLEAN : log = NewLogger(BufSize, debug)

SpecBroadcast == InitBroadcast /\ [][NextBroadcast]_vars

-----------------------------------------------------------------------------
\* Helpers of the properties below.

\* The adapter of instance i has a session that is connecting or connected.
InFlight(i) ==
    \/ inst[i].bg = "connecting"
    \/ inst[i].handle = "open"
    \/ inst[i].run = "app"

\* The status the adapter behind id's registry entry reports.
LiveStatus(id) == IF tunnels[id] = 0 THEN "stopped" ELSE inst[tunnels[id]].sStatus

\* The registry entry of id has (cached) status st.
EntryStatus(id, st) == tunnels[id] # 0 /\ inst[tunnels[id]].Status = st

-----------------------------------------------------------------------------
\* C1: for every id at most one adapter instance has a session that is
\* connecting or connected, and every such adapter is the one the registry
\* entry of its id holds (so its cancel function can still be reached).
C1_OneAdapterInFlightPerId ==
    /\ \A id \in Ids : Cardinality({i \in Insts : inst[i].id = id /\ InFlight(i)}) <= 1
    /\ \A i \in Insts : InFlight(i) => tunnels[inst[i].id] = i

\* C2: a Manager.Start(id) made while the registry entry of id is still
\* Starting returns the already-running error and constructs no adapter.
C2_StartWhileStartingRejected ==
    [][(ret'.op = "Start" /\ EntryStatus(ret'.id, "starting"))
          => (ret'.err = ErrAlreadyRunning /\ inst' = inst)]_vars

\* C3: a Manager.Stop(id) that returns success while the start of id is still
\* in flight (registry entry Starting) has cancelled the per-tunnel context of
\* that start.
C3_StopWhileStartingCancels ==
    [][(ret'.op = "Stop" /\ ret'.err = "" /\ EntryStatus(ret'.id, "starting"))
          => inst'[tunnels[ret'.id]].ctxDone]_vars

\* C4: a Manager.Start(id) made when the definition of id exists and the live
\* status of id is stopped or error succeeds and installs a new adapter.
C4_StartAfterStoppedOrErrorSucceeds ==
    [][(ret'.op = "Start" /\ cfg[ret'.id] # NoDef
            /\ LiveStatus(ret'.id) \in {"stopped", "error"})
          => (ret'.err = "" /\ tunnels'[ret'.id] = Len(inst) + 1
                /\ Len(inst') = Len(inst) + 1)]_vars

\* C5: Manager.Start(id) on a registry entry with status Running returns the
\* already-running error and changes neither the registry map nor any
\* TunnelState, adapter or cancellation source.
C5_StartOnRunningRejected ==
    [][(ret'.op = "Start" /\ tunnels[ret'.id] # 0
            /\ inst[tunnels[ret'.id]].Status = "running")
          => (ret'.err = ErrAlreadyRunning /\ tunnels' = tunnels /\ inst' = inst)]_vars

C5_Witness ==
    /\ ret.op = "Start" /\ ret.err = ErrAlreadyRunning
    /\ tunnels[ret.id] # 0 /\ inst[tunnels[ret.id]].Status = "running"
    /\ inst[tunnels[ret.id]].PublicURL # ""

\* C6: once Manager.Stop(id) has returned for a started id it has returned
\* success, and the adapter of id reports status stopped and an empty URL.
C6_StopLeavesStoppedEmptyURL ==
    (ret.op = "Stop" /\ ret.id \in started)
        => /\ ret.err = ""
           /\ inst[tunnels[ret.id]].sStatus = "stopped"
           /\ inst[tunnels[ret.id]].sURL = ""

\* C7: Manager.GetStatus(id) for an id no Start has succeeded for returns no
\* error and the snapshot (stopped, "", ""), and leaves the registry as it was.
C7_GetStatusNeverStarted ==
    [][(ret'.op = "GetStatus" /\ ret'.id \notin started)
          => /\ ret'.err = ""
             /\ ret'.snap = [Status |-> "stopped", PublicURL |-> "", Error |-> ""]
             /\ tunnels' = tunnels /\ inst' = inst]_vars

C7_Witness ==
    /\ ret.op = "GetStatus" /\ ret.id \notin started /\ started # {}
    /\ ret.snap.Status = "stopped" /\ cfg[ret.id] # NoDef

C9_StopNotFoundIffNeverStarted ==
    [][ret'.op = "Stop"
          => /\ (ret'.err = ErrNotFound) <=> (ret'.id \notin started)
             /\ ret'.err \in {"", ErrNotFound}
             /\ ret'.err # "" => (tunnels' = tunnels /\ inst' = inst)]_vars

C9_Witness ==
    /\ ret.op = "Stop" /\ ret.err = ErrNotFound
    /\ ret.id \notin started /\ started # {} /\ cfg[ret.id] # NoDef

\* C10: while the adapter's Start of the registry entry of id has returned an
\* error and no Stop has gone past that entry since, the adapter reports
\* status error and a non-empty error message.
C10_FailedStartReportsError ==
    \A id \in Ids :
        (/\ tunnels[id] # 0
         /\ inst[tunnels[id]].bg \in {"report_err", "done"}
         /\ inst[tunnels[id]].startErr # ""
         /\ ~inst[tunnels[id]].ctxDone)
            => /\ inst[tunnels[id]].sStatus = "error"
               /\ inst[tunnels[id]].sErr # ""

\* The adapter of instance i is waiting for its provider to connect: the
\* select of NgrokService.Start, or a cloudflared session that has printed no
\* URL yet.
Connecting(i) ==
    /\ i \in Insts
    /\ \/ inst[i].bg = "connecting"
       \/ inst[i].kind = "cloudflare" /\ inst[i].run = "app" /\ inst[i].sURL = ""

\* C11: no adapter stays waiting for its provider's connect forever: whatever
\* the provider does, every adapter leaves the connecting state again (by the
\* timeout when the connect never completes).
C11_ConnectingEnds == \A i \in 1..MaxInst : []<>(~Connecting(i))

\* C12: every snapshot Manager.GetStatus returns with a non-empty PublicURL
\* has status running.
C12_SnapshotURLImpliesRunning ==
    ret.op = "GetStatus" => (ret.snap.PublicURL # "" => ret.snap.Status = "running")

\* C13: every snapshot Manager.GetStatus returns with status running has a
\* non-empty PublicURL.
C13_SnapshotRunningImpliesURL ==
    ret.op = "GetStatus" => (ret.snap.Status = "running" => ret.snap.PublicURL # "")

\* C14: every snapshot Manager.GetStatus returns with a non-empty Error has
\* status error.
C14_SnapshotErrorImpliesStatusError ==
    ret.op = "GetStatus" => (ret.snap.Error # "" => ret.snap.Status = "error")

\* C15: a snapshot Manager.GetStatus(id) returns while the adapter of id's
\* registry entry has not yet reported success or failure (service.Start not
\* yet called, or still in its connect) has status starting.
C15_StartingUntilAdapterReports ==
    (/\ ret.op = "GetStatus"
     /\ tunnels[ret.id] # 0
     /\ inst[tunnels[ret.id]].bg \in {"start", "connecting"})
        => ret.snap.Status = "starting"

\* C16: while a Manager.Stop waits for its adapter's teardown to complete
\* (cs.wg.Wait() has not returned) the registry lock is not held, so that
\* operations on other ids can complete.
C16_TeardownWaitOutsideLock ==
    (stopper.pc = "wait" /\ ~WaitGroupZero(stopper.i)) => mu = "free"

\* C17: a Manager.Start that returns success returns with the registry lock
\* released and before the goroutine it launched has called the adapter's
\* Start; the steps of that goroutine up to its report (service.Start and the
\* connect in it) neither need nor take the registry lock.
C17_StartReturnsBeforeConnect ==
    [][/\ (ret'.op = "Start" /\ ret'.err = "")
            => /\ mu' = "free"
               /\ Len(inst') = Len(inst) + 1
               /\ inst'[Len(inst')].bg = "start"
               /\ inst'[Len(inst')].sCancel = "nil"
       /\ \A i \in Insts :
            (inst[i].bg \in {"start", "connecting"} /\ inst'[i].bg # inst[i].bg)
                => (mu' = mu /\ ret' = NoRet)]_vars

\* A second Start has returned success while the adapter of the first is
\* still in its connect.
C17_Witness ==
    /\ ret.op = "Start" /\ ret.err = ""
    /\ Len(inst) = 2
    /\ inst[1].bg = "connecting"
    /\ inst[2].bg = "start"

\* C18: when the Manager.Stop(id) that StopAll calls last returns, and StopAll
\* with it, the per-tunnel context of the registry entry of id has been
\* cancelled.
C18_StopAllCancelsEveryContext ==
    [][\A id \in Ids :
          (stopAll.active /\ stopAll.todo = {id} /\ ret'.op = "StopAll")
              => inst'[tunnels[id]].ctxDone]_vars

\* C19: StopAll starts with every id of the registry to stop, calls
\* Manager.Stop for one id at a time, takes an id off its list only when the
\* Stop of that id has returned, returns only when the list is empty, and
\* returns nil.
C19_StopAllStopsEveryId ==
    [][/\ (~stopAll.active /\ stopAll'.active)
            => stopAll'.todo = {id \in Ids : tunnels[id] # 0}
       /\ (stopAll.active /\ stopAll' # stopAll)
            => \E id \in stopAll.todo :
                  /\ stopAll.todo \ stopAll'.todo = {id}
                  /\ stopAll'.todo \subseteq stopAll.todo
                  /\ \/ /\ stopper.id = id /\ stopper.by = "all"
                        /\ inst'[stopper.i].ctxDone
                        /\ inst'[stopper.i].Status = "stopped"
                     \/ /\ stopper.pc = "idle"
                        /\ tunnels[id] # 0 /\ inst[tunnels[id]].sStatus = "stopped"
       /\ stopper.by = "all" => (stopAll.active /\ stopper.id \in stopAll.todo)
       /\ ret'.op = "StopAll"
            => /\ ret'.err = ""
               /\ ~stopAll'.active
               /\ IF stopAll.active THEN Cardinality(stopAll.todo) = 1
                  ELSE {id \in Ids : tunnels[id] # 0} = {}]_vars

\* StopAll has returned after stopping the adapters of two ids.
C19_Witness ==
    /\ ret.op = "StopAll" /\ ret.err = ""
    /\ Cardinality({id \in Ids : tunnels[id] # 0}) = 2
    /\ \A id \in Ids : tunnels[id] # 0 =>
          (inst[tunnels[id]].ctxDone /\ inst[tunnels[id]].Status = "stopped")

\* C20: a Manager.Stop(id) that found the adapter of id not stopped has
\* cancelled the per-tunnel context before it calls the adapter's Stop, and
\* returns nil whatever the adapter's Stop returned.
C20_StopSucceedsDespiteTeardownError ==
    [][/\ stopper.pc # "idle" => inst[stopper.i].ctxDone
       /\ (ret'.op = "Stop" /\ stopper.pc # "idle")
            => /\ ret'.id = stopper.id
               /\ ret'.err = ""
               /\ inst'[stopper.i].ctxDone]_vars

\* Manager.Stop has returned nil although ns.tunnel.Close() failed: the
\* session handle is still open and the adapter still reports running.
C20_Witness ==
    /\ ret.op = "Stop" /\ ret.err = ""
    /\ tunnels[ret.id] # 0
    /\ inst[tunnels[ret.id]].kind = "proxy"
    /\ inst[tunnels[ret.id]].ctxDone
    /\ inst[tunnels[ret.id]].handle = "open"
    /\ inst[tunnels[ret.id]].sStatus = "running"

\* C21: a Manager.Start(id) for a stored definition whose target url.Parse
\* rejects returns an error itself, registers no TunnelState and launches no
\* goroutine.
C21_BadTargetFailsSynchronously ==
    [][(ret'.op = "Start" /\ cfg[ret'.id] # NoDef /\ ~UrlParseOK(cfg[ret'.id].Target))
          => (ret'.err # "" /\ tunnels' = tunnels /\ inst' = inst)]_vars

\* C26: a Cloudflare adapter that has recorded the error its session ended
\* with, under a context that is still live, keeps status error as long as no
\* Manager.Stop acts on it.
C26_CloudflareErrorStays ==
    [][\A i \in Insts :
          (/\ inst[i].kind = "cloudflare"
           /\ inst[i].sStatus = "error" /\ inst[i].sErr = ErrCli
           /\ ~SvcCtxDone(i) /\ ~inst'[i].ctxDone)
              => inst'[i].sStatus = "error"]_vars

\* C22: every definition AddTunnel or UpdateTunnel has stored has a target
\* scheme its provider supports: http or https for cloudflare; http, https,
\* tcp or tls for ngrok.
C22_StoredSchemeCompatible ==
    [][(ret'.op \in {"AddTunnel", "UpdateTunnel"} /\ ret'.err = "")
          => /\ cfg'[ret'.id].Type \in {"cloudflare", "ngrok"}
             /\ cfg'[ret'.id].Type = "cloudflare"
                  => Scheme(cfg'[ret'.id].Target) \in {"http", "https"}
             /\ cfg'[ret'.id].Type = "ngrok"
                  => Scheme(cfg'[ret'.id].Target) \in {"http", "https", "tcp", "tls"}]_vars

\* C23: an adapter whose context is cancelled while it is still connecting
\* unwinds, and its status settles to stopped for good (it neither stays
\* starting nor ends in error).
C23_CancelledConnectSettlesStopped ==
    \A i \in 1..MaxInst :
        []((Connecting(i) /\ SvcCtxDone(i))
              => <>[](i \in Insts /\ inst[i].sStatus = "stopped"))

\* C24: when the adapter's Stop() that a Manager.Stop called has returned (at
\* once, or after cs.wg.Wait()), the adapter's session task has exited and the
\* adapter reports status stopped and an empty public URL.
C24_AdapterStopCompletesTeardown ==
    (\/ stopper.pc = "fin"
     \/ stopper.pc = "wait" /\ WaitGroupZero(stopper.i))
        => /\ inst[stopper.i].run \in {"none", "exited"}
           /\ inst[stopper.i].sStatus = "stopped"
           /\ inst[stopper.i].sURL = ""

\* C25: the public URL a Cloudflare adapter has recorded is the URL the
\* provider issued to that adapter's own session.
C25_RecordedURLIsOwn ==
    \A i \in Insts :
        (inst[i].kind = "cloudflare" /\ inst[i].sURL # "")
            => inst[i].sURL = IssuedURL(i)

\* C27: once a tunnel's status is error, in its TunnelState or as its adapter
\* reports it to GetStatus, nothing happens to it on its own: the goroutine of
\* its Start calls no adapter Start again, and neither status leaves error
\* except by a Manager.Stop acting on that TunnelState (a Manager.Start makes
\* a new TunnelState and a new adapter, it does not touch this one).
C27_ErrorStaysUntilExplicitCall ==
    [][\A i \in Insts :
          (inst[i].Status = "error" \/ inst[i].sStatus = "error")
              => /\ inst[i].bg # "start" /\ inst'[i].bg # "start"
                 /\ (inst[i].Status = "error" /\ inst'[i].Status # "error")
                        => (stopper.pc # "idle" /\ stopper.i = i)
                 /\ (inst[i].sStatus = "error" /\ inst'[i].sStatus # "error")
                        => (stopper.pc # "idle" /\ stopper.i = i)]_vars

\* C28: the map Manager.GetAllStatuses returns has exactly the ids some Start
\* has succeeded for as its keys, each entry is built from the adapter's live
\* status, URL and error and the entry's ID and StartedAt, a GetStatus(id)
\* during which the adapter did not move returns those same three live values,
\* and neither call changes the registry.
C28_GetAllStatusesMatchesGetStatus ==
    [][/\ ret'.op = "GetAllStatuses"
            => /\ DOMAIN ret'.all = started
               /\ \A id \in started :
                     ret'.all[id] = [ID |-> id,
                                     Status |-> inst[tunnels[id]].sStatus,
                                     PublicURL |-> inst[tunnels[id]].sURL,
                                     StartedAt |-> tunnels[id],
                                     Error |-> inst[tunnels[id]].sErr]
       /\ (/\ ret'.op = "GetStatus" /\ reader.pc = "err"
           /\ reader.Status = inst[reader.i].sStatus
           /\ reader.PublicURL = inst[reader.i].sURL)
            => ret'.snap = [Status |-> inst[tunnels[reader.id]].sStatus,
                            PublicURL |-> inst[tunnels[reader.id]].sURL,
                            Error |-> inst[tunnels[reader.id]].sErr]
       /\ ret'.op \in {"GetAllStatuses", "GetStatus"}
            => (tunnels' = tunnels /\ inst' = inst)]_vars

\* GetAllStatuses has returned two entries, one running with its URL while
\* the TunnelState of that id has not yet been updated by its goroutine.
C28_Witness ==
    /\ ret.op = "GetAllStatuses"
    /\ Cardinality(DOMAIN ret.all) = 2
    /\ \E id \in DOMAIN ret.all :
          /\ ret.all[id].Status = "running" /\ ret.all[id].PublicURL # ""
          /\ inst[tunnels[id]].Status = "starting"

\* C29: no step removes a registry entry; the registry changes only when a
\* Manager.Start succeeds, which points the entry of its id at the TunnelState
\* it made; every id a Start succeeded for has an entry.
C29_RegistryNeverForgets ==
    [][/\ \A id \in Ids : tunnels[id] # 0 => tunnels'[id] # 0
       /\ tunnels' # tunnels
            => /\ ret'.op = "Start" /\ ret'.err = ""
               /\ tunnels' = [tunnels EXCEPT ![ret'.id] = Len(inst) + 1]
       /\ started \subseteq started'
       /\ \A id \in started' : tunnels'[id] # 0]_vars

\* A Start has overwritten the entry of an id whose earlier TunnelState was
\* stopped or in error, after a Stop or a failed start.
C29_Witness ==
    /\ ret.op = "Start" /\ ret.err = ""
    /\ Len(inst) = 2 /\ inst[1].id = ret.id /\ tunnels[ret.id] = 2
    /\ inst[1].Status \in {"stopped", "error"}

\* C30: a step of the goroutine or of the session of one TunnelState changes
\* no other TunnelState or adapter and leaves the registry map alone.
C30_TaskWritesOwnStateOnly ==
    [][\A i \in Insts :
          (inst'[i].bg # inst[i].bg \/ inst'[i].run # inst[i].run)
              => /\ \A j \in Insts \ {i} : inst'[j] = inst[j]
                 /\ tunnels' = tunnels]_vars

\* The goroutine of an earlier Start of an id has recorded running in its own
\* TunnelState after a later Start of the same id; the later one is untouched.
C30_Witness ==
    /\ Len(inst) = 2 /\ inst[1].id = inst[2].id
    /\ inst[1].Status = "running" /\ inst[1].PublicURL # ""
    /\ inst[2].Status = "starting" /\ inst[2].PublicURL = ""

\* C32: once every runTunnel that was started has run its deferred functions
\* to the end, os.Stdout and os.Stderr are the original streams again, not
\* the pipe of some session.
C32_StreamsRestoredWhenAllEnded ==
    (Insts # {} /\ \A i \in Insts : stdio.sess[i].pc = "done")
        => stdio.out = 0

\* C33: when startHTTP, startTCP or startTLS has received a connect error,
\* its next step sets status error and records, on every one of the three
\* paths, the session-limit message if the error's code is ERR_NGROK_108 and
\* otherwise the path's prefix followed by the provider's own text; that
\* message is what Start returns to the goroutine of Manager.Start.
C33_SessionLimitClassified ==
    [][\A i \in Insts :
          (inst[i].kind = "agent" /\ inst[i].bg = "set_error")
              => /\ inst[i].res.code # ""
                 /\ inst[i].sErr =
                       (IF inst[i].res.code = "ERR_NGROK_108"
                        THEN "Free ngrok accounts can only run one tunnel at a time. Please stop other tunnels first."
                        ELSE (CASE inst[i].target = "tcp://localhost:22" -> "Failed to start TCP tunnel"
                                [] inst[i].target = "tls://localhost:443" -> "Failed to start TLS tunnel"
                                [] OTHER -> "Failed to start tunnel")
                             \o ": " \o inst[i].res.msg)
                 /\ inst'[i].bg # inst[i].bg
                        => /\ inst'[i].sStatus = "error"
                           /\ inst'[i].sErr = inst[i].sErr
                           /\ inst'[i].startErr = inst[i].sErr]_vars

\* A TLS tunnel refused with ERR_NGROK_108 has been recorded in error with
\* the session-limit message by Manager.Start's goroutine.
C33_Witness ==
    \E i \in Insts :
        /\ inst[i].kind = "agent" /\ inst[i].target = "tls://localhost:443"
        /\ inst[i].Status = "error" /\ inst[i].sStatus = "error"
        /\ inst[i].Error = ErrSessionLimit

\* C34: a tunneled request whose forwarding failed is answered 502, and
\* serving it changes no adapter, TunnelState or registry entry: the adapter
\* still reports running with the same URL and its handler still takes
\* requests.
C34_ForwardFailureIs502Only ==
    [][ret'.op = "Request"
          => /\ ret'.forwardErr => ret'.code = 502
             /\ inst' = inst /\ tunnels' = tunnels
             /\ inst'[ret'.i].sStatus = "running"
             /\ inst'[ret'.i].sURL = IssuedURL(ret'.i)
             /\ inst'[ret'.i].handle = "open"]_vars

\* A request has been answered 502 on a tunnel that reports running.
C34_Witness ==
    /\ ret.op = "Request" /\ ret.forwardErr /\ ret.code = 502
    /\ inst[ret.i].sStatus = "running" /\ inst[ret.i].Status = "running"
    /\ ~inst[ret.i].ctxDone

\* C35 as claimed: DeleteTunnel changes neither the registry map nor any
\* TunnelState or adapter; a Manager.Stop of a started id whose definition is
\* deleted returns nil with the adapter not running; and a Manager.Start of
\* such an id returns the not-found error.
C35_DeleteLeavesRuntimeStartNotFound ==
    [][/\ ret'.op = "DeleteTunnel" => (tunnels' = tunnels /\ inst' = inst)
       /\ (ret'.op = "Stop" /\ ret'.id \in started /\ cfg[ret'.id] = NoDef)
            => /\ ret'.err = ""
               /\ tunnels' = tunnels
               /\ inst'[tunnels[ret'.id]].sStatus # "running"
       /\ (ret'.op = "Start" /\ ret'.id \in started /\ cfg[ret'.id] = NoDef)
            => ret'.err = ErrNotFound]_vars

\* C35 as amended: DeleteTunnel changes neither the registry map nor any
\* TunnelState or adapter; a Manager.Stop of a started id whose definition is
\* deleted returns nil with the adapter not running; and a Manager.Start of
\* such an id fails and leaves the registry alone, with the already-running
\* error while the entry's Status is running and the not-found error otherwise.
C35_DeleteLeavesRuntime ==
    [][/\ ret'.op = "DeleteTunnel" => (tunnels' = tunnels /\ inst' = inst)
       /\ (ret'.op = "Stop" /\ ret'.id \in started /\ cfg[ret'.id] = NoDef)
            => /\ ret'.err = ""
               /\ tunnels' = tunnels
               /\ inst'[tunnels[ret'.id]].sStatus # "running"
       /\ (ret'.op = "Start" /\ ret'.id \in started /\ cfg[ret'.id] = NoDef)
            => /\ ret'.err = IF inst[tunnels[ret'.id]].Status = "running"
                             THEN ErrAlreadyRunning ELSE ErrNotFound
               /\ tunnels' = tunnels /\ inst' = inst]_vars

\* A Stop has returned nil for a tunnel whose definition was deleted while it
\* was running: its context is cancelled and its TunnelState is stopped.
C35_Witness ==
    /\ ret.op = "Stop" /\ ret.err = "" /\ ret.id \in started
    /\ cfg[ret.id] = NoDef
    /\ inst[tunnels[ret.id]].ctxDone
    /\ inst[tunnels[ret.id]].Status = "stopped"
    /\ inst[tunnels[ret.id]].PublicURL # ""

\* C36: when the MCP startTunnel tool calls Manager.Start for an id, the
\* stored definition of that id is MCP-enabled; and listTunnels returns
\* exactly the stored definitions that are MCP-enabled, with Count the number
\* of entries it lists.
C36_McpOnlyEnabledTunnels ==
    [][/\ (mcp.pc = "start" /\ ret'.op = "Start") => cfg[ret'.id].MCPEnabled
       /\ ret'.op = "listTunnels"
            => /\ ret'.Count = Len(ret'.Tunnels)
               /\ {ret'.Tunnels[k].ID : k \in 1..Len(ret'.Tunnels)}
                     = {id \in Ids : cfg[id] # NoDef /\ cfg[id].MCPEnabled}]_vars

\* C31: with every session exiting once its context is cancelled, whenever a
\* Manager.Stop holds m.mu or a StopAll is in its loop, a state follows in
\* which that Stop has returned and no StopAll is under way: every such call
\* returns.
C31_StopAndStopAllReturn ==
    (stopper.pc # "idle" \/ stopAll.active)
        ~> (stopper.pc = "idle" /\ ~stopAll.active)

\* A Stop called by StopAll holds m.mu and waits in cs.wg.Wait() for a session
\* still in app.RunContext, while the goroutine of that tunnel's Start has seen
\* ctx.Done() and waits for m.mu.
C31_Witness ==
    /\ stopper.pc = "wait" /\ stopper.by = "all" /\ mu = "stop"
    /\ inst[stopper.i].run = "app"
    /\ inst[stopper.i].bg = "wait" /\ inst[stopper.i].ctxDone

\* C37: the slice the last GetAll returned holds, now and after any later
\* Add, exactly the last min(k, size) of the k entries that had been added
\* when it was called, oldest first.
C37_GetAllReturnsLastEntries ==
    log.snap.taken
        => SnapshotNow =
              SubSeq(log.added,
                     log.snap.at - (IF log.snap.at < log.cb.size
                                    THEN log.snap.at ELSE log.cb.size) + 1,
                     log.snap.at)

\* GetAll was called after the buffer had wrapped, with index in mid-buffer,
\* and entries have been added since.
C37_Witness ==
    /\ log.snap.taken /\ log.snap.at > log.cb.size /\ log.cb.size > 1
    /\ Len(log.snap.val) = log.cb.size
    /\ log.snap.val[1] # 1
    /\ Len(log.added) > log.snap.at + 1
    /\ log.cb.index # 0

\* C38: no step closes a closed channel or sends on one; a turn of Write's
\* loop for a subscriber whose channel is full leaves every channel as it was
\* and otherwise appends the entry to that subscriber's channel only; a Write
\* in its loop can always take its next turn, whatever the channels hold; and
\* no Write is left waiting for good in mu.RLock(): whoever holds mu.Lock()
\* is running its loop, not waiting in a Write of its own.
C38_BroadcastNeverPanicsOrBlocks ==
    [][/\ log'.panicked = ""
       /\ log'.lock => log'.cleaner.pc = "loop"
       /\ \A w \in Writers :
             /\ (log.writer[w].pc = "send" /\ log.writer[w].todo # {})
                   => ENABLED WriteSend(w)
             /\ (log.writer[w].pc = "send" /\ log'.writer[w].todo # log.writer[w].todo)
                   => \E id \in log.writer[w].todo :
                         /\ log'.writer[w].todo = log.writer[w].todo \ {id}
                         /\ ~log.chans[log.subs[id]].closed
                         /\ \A c \in 1..Len(log.chans) :
                               log'.chans[c].buf =
                                  IF c = log.subs[id] /\ Len(log.chans[c].buf) < ChanCap
                                  THEN Append(log.chans[c].buf, log.writer[w].entry)
                                  ELSE log.chans[c].buf]_vars
====
